---------------------------- MODULE Spec2Model ----------------------------
(***************************************************************************)
(* A model of mineflayer-custom-auth: MinecraftAuthenticator               *)
(* (src/src/cookies/cookieManager.ts).  processAccount is modelled step by *)
(* step, one action per awaited operation; the credential store is the     *)
(* FileCache slot of each identity; the clock is Date.now().               *)
(*                                                                         *)
(* Strings the code inspects (cookie strings, tokens, proxy strings) are   *)
(* sequences of one-character strings.  An optional value (undefined or a  *)
(* value) is a sequence of length 0 or 1.                                  *)
(***************************************************************************)
EXTENDS Integers, Sequences, FiniteSets, TLC

(***************************************************************************)
(* Bounds of the model.                                                    *)
(***************************************************************************)
\* How many times the clock may advance in one behaviour.
MaxTicks == 3

(***************************************************************************)
(* Program constants.                                                      *)
(***************************************************************************)
\* createAuthCacheObject: expires_in (seconds).
EXPIRES_IN == 86400
\* getCachedAccessToken: milliseconds per second in the expiry computation.
MS_PER_SECOND == 1000
\* getCachedAccessToken: a record is valid when more than this remains (ms).
SAFETY_MARGIN == 1000
\* processAccount: the fixed wait after the click (ms).
SETTLE_MS == 3000

None == <<>>
Some(x) == <<x>>

(***************************************************************************)
(* Strings.                                                                *)
(***************************************************************************)
\* JS String.prototype.indexOf(pat, from), 0-based; -1 when absent.
IndexOf(s, pat, from) ==
  LET hits == {i \in from .. (Len(s) - Len(pat)) :
                  SubSeq(s, i + 1, i + Len(pat)) = pat}
  IN IF hits = {} THEN -1 ELSE CHOOSE i \in hits : \A j \in hits : i <= j

\* JS String.prototype.substring(a, b), 0-based, b exclusive.
Substring(s, a, b) == SubSeq(s, a + 1, b)

\* JS String.prototype.startsWith.
StartsWith(s, pat) == Len(s) >= Len(pat) /\ SubSeq(s, 1, Len(pat)) = pat

bearerToken == <<"b","e","a","r","e","r","_","t","o","k","e","n","=">>

\* extractAccessToken(cookieString)
extractAccessToken(cookieString) ==
  LET start == IndexOf(cookieString, bearerToken, 0) + Len(bearerToken)
  IN IF start <= Len(bearerToken) THEN <<>>
     ELSE LET end == IndexOf(cookieString, <<";">>, start)
          IN IF end = -1 THEN Substring(cookieString, start, Len(cookieString))
             ELSE Substring(cookieString, start, end)

\* Variant: any non-empty token is accepted.
TokenAccepted_AnyNonEmpty(accessToken) == Len(accessToken) > 0

\* accessToken.startsWith("ey")
TokenAccepted(accessToken) == StartsWith(accessToken, <<"e","y">>)

\* JS String.prototype.split(":")
RECURSIVE Split(_)
Split(s) ==
  LET i == IndexOf(s, <<":">>, 0)
  IN IF i = -1 THEN <<s>>
     ELSE <<Substring(s, 0, i)>> \o Split(Substring(s, i + 1, Len(s)))

\* Array destructuring: the k-th element or undefined.
Field(parts, k) == IF k <= Len(parts) THEN Some(parts[k]) ELSE None

\* Variant: the fourth field is dropped.
parseProxyString_NoPassword(proxyString) ==
  [server   |-> Field(Split(proxyString), 1),
   port     |-> Field(Split(proxyString), 2),
   username |-> Field(Split(proxyString), 3), password |-> None]

\* parseProxyString(proxyString)
parseProxyString(proxyString) ==
  LET parts == Split(proxyString)
  IN [server   |-> Field(parts, 1), port     |-> Field(parts, 2),
      username |-> Field(parts, 3), password |-> Field(parts, 4)]


(***************************************************************************)
(* The proxy URL (processAccount, "Configure proxy URL").                  *)
(***************************************************************************)
\* JS truthiness of an optional string: defined and non-empty.
Truthy(o) == o # None /\ o[1] # <<>>

\* A template literal renders undefined as the text "undefined".
Render(o) == IF o = None THEN <<"u","n","d","e","f","i","n","e","d">> ELSE o[1]

Digits == {"8"}

\* new URL("http://...:<port>") throws unless the port is empty or a number
\* up to 65535 and the host is non-empty; with the one digit of the model a
\* number is in range exactly when it has at most four digits.
UrlThrows(proxy) ==
  LET port == Render(proxy.port)
  IN \/ Render(proxy.server) = <<>>
     \/ \E i \in 1 .. Len(port) : port[i] \notin Digits
     \/ Len(port) > 4

\* proxyUrl: the URL's username and password (both empty for an anonymous URL).
ProxyUrl(proxy) ==
  IF ~Truthy(proxy.username) /\ ~Truthy(proxy.password)
  THEN [username |-> <<>>, password |-> <<>>]
  ELSE [username |-> Render(proxy.username), password |-> Render(proxy.password)]

\* proxyUrl != null && proxyUrl.username && proxyUrl.password
NeedsProxyAuth(proxyUrl) ==
  proxyUrl # None /\ proxyUrl[1].username # <<>> /\ proxyUrl[1].password # <<>>

(***************************************************************************)
(* The credential store: one FileCache slot per identity.                  *)
(***************************************************************************)
\* A slot is what the cache file of an identity holds: the mca entry (or
\* none) and the cookie flag; readable is FALSE for a file whose read makes
\* FileCache.getCached throw.
\* The file contents {}: no mca entry, no cookie flag.
EmptySlot == [mca |-> None, cookie |-> FALSE, readable |-> TRUE]

\* A file that cannot be read.
UnreadableSlot == [mca |-> None, cookie |-> FALSE, readable |-> FALSE]

\* Variant: the record is given one second more to live.
createAuthCacheObject_LongerTTL(accessToken, t) ==
  [mca |-> [access_token |-> accessToken, expires_in |-> EXPIRES_IN + 1,
            obtainedOn |-> t]]

\* createAuthCacheObject(accessToken), with Date.now() = t
createAuthCacheObject(accessToken, t) ==
  [mca |-> [access_token |-> accessToken, expires_in |-> EXPIRES_IN,
            obtainedOn |-> t]]

\* Variant: the cookie flag is not written.
saveAuthCacheObject_NoCookieFlag(authCache, t) ==
  [mca |-> Some([authCache.mca EXCEPT !.obtainedOn = t]), cookie |-> FALSE,
   readable |-> TRUE]

\* saveAuthCacheObject: the object handed to setCachedPartial, Date.now() = t.
\* The FileCache instance is fresh, so the partial write replaces the slot.
saveAuthCacheObject(authCache, t) ==
  [mca |-> Some([authCache.mca EXCEPT !.obtainedOn = t]), cookie |-> TRUE,
   readable |-> TRUE]

\* The object getCachedAccessToken returns for the mca entry token.
CachedToken(token, cookie, valid) ==
  Some([is_cookie |-> cookie, valid |-> valid,
        until |-> token.obtainedOn + token.expires_in * MS_PER_SECOND,
        token |-> token.access_token, data |-> token])

\* Variant: the margin is one millisecond wider.
getCachedAccessToken_WiderMargin(slot, onlyCookieStorage, t) ==
  IF ~slot.readable \/ slot.mca = None \/ (onlyCookieStorage /\ ~slot.cookie)
  THEN None
  ELSE CachedToken(slot.mca[1], slot.cookie,
         slot.mca[1].obtainedOn + slot.mca[1].expires_in * MS_PER_SECOND - t
           > SAFETY_MARGIN + 1)

\* Variant: valid when at least the margin remains.
getCachedAccessToken_AtLeastMargin(slot, onlyCookieStorage, t) ==
  IF ~slot.readable \/ slot.mca = None \/ (onlyCookieStorage /\ ~slot.cookie)
  THEN None
  ELSE CachedToken(slot.mca[1], slot.cookie,
         slot.mca[1].obtainedOn + slot.mca[1].expires_in * MS_PER_SECOND - t
           >= SAFETY_MARGIN)

\* Variant: every record is taken to be of the cookie path.
getCachedAccessToken_FlagAssumed(slot, onlyCookieStorage, t) ==
  IF ~slot.readable \/ slot.mca = None
  THEN None
  ELSE CachedToken(slot.mca[1], TRUE,
         slot.mca[1].obtainedOn + slot.mca[1].expires_in * MS_PER_SECOND - t
           > SAFETY_MARGIN)

\* Variant: the cookie flag is not looked at.
getCachedAccessToken_AnyOrigin(slot, onlyCookieStorage, t) ==
  IF ~slot.readable \/ slot.mca = None
  THEN None
  ELSE CachedToken(slot.mca[1], slot.cookie,
         slot.mca[1].obtainedOn + slot.mca[1].expires_in * MS_PER_SECOND - t
           > SAFETY_MARGIN)

\* getCachedAccessToken on the slot of the identity, with Date.now() = t:
\* undefined (None) or the object it returns.  getCached throws on an
\* unreadable slot and the catch returns undefined.
getCachedAccessToken(slot, onlyCookieStorage, t) ==
  IF ~slot.readable THEN None
  ELSE LET token  == slot.mca
           cookie == slot.cookie
       IN IF token = None \/ (onlyCookieStorage /\ ~cookie) THEN None
          ELSE LET expires   == token[1].obtainedOn + token[1].expires_in * MS_PER_SECOND
                   remaining == expires - t
                   valid     == remaining > SAFETY_MARGIN
               IN CachedToken(token[1], cookie, valid)

\* Variant: a read resets the slot.
AfterGetCached_Reset(slot) == [mca |-> None, cookie |-> FALSE, readable |-> TRUE]

\* Variant: a record of the native login survives the reset.
clearCache_KeepNative(slot) ==
  IF slot.mca # None /\ ~slot.cookie THEN slot
  ELSE [mca |-> None, cookie |-> FALSE, readable |-> TRUE]

\* The slot after cacheFile.getCached(): a read leaves the file as it is.
AfterGetCached(slot) == slot

\* clearCache(username): fileCache.reset() leaves the file contents {}.
clearCache(slot) == EmptySlot

(***************************************************************************)
(* Outcomes (ProcessAccRes).                                               *)
(***************************************************************************)
CacheHit(token) ==
  [success |-> TRUE, fromCache |-> TRUE, token |-> Some(token), error |-> None]
Authenticated(token) ==
  [success |-> TRUE, fromCache |-> FALSE, token |-> Some(token), error |-> None]
Failure(error) ==
  [success |-> FALSE, fromCache |-> FALSE, token |-> None, error |-> error]

\* How a caller of the authenticator ends: with a value or with an error.
Resolved(value) == [returned |-> value, thrown |-> None]
Rejected(message) == [returned |-> None, thrown |-> Some(message)]

\* getToken, after the awaited processAccount gave result.
getToken(result) ==
  IF result.success THEN Resolved(result.token)
  ELSE Rejected(IF result.fromCache
              THEN "Failed to get token from cache"
              ELSE "Failed to authenticate with provided credentials")

(***************************************************************************)
(* Inputs.                                                                 *)
(***************************************************************************)
Procs == {"p1"}

\* Identities; createHash is taken to be injective on them, so the cache
\* file name of generateCacheFileName is the identity itself.
Identities == {"alice", "bob"}
generateCacheFileName(username) == username

Cookie(domain) == [domain |-> domain]
CookieLists ==
  { <<>>,
    <<Cookie(".live.com")>>,
    <<Cookie("minecraft.net")>>,
    <<Cookie("login.live.com"), Cookie(".login.live.com")>> }

NoConfig == [server |-> None, port |-> None, username |-> None, password |-> None]
NoProxy == [kind |-> "undefined", str |-> <<>>, cfg |-> NoConfig]
ProxyString(str) == [kind |-> "string", str |-> str, cfg |-> NoConfig]
ProxyObject(cfg) == [kind |-> "object", str |-> <<>>, cfg |-> cfg]
ProxyConfigs ==
  { NoProxy,
    ProxyObject([server |-> Some(<<"h">>), port |-> Some(<<"8">>),
                 username |-> Some(<<"u">>), password |-> Some(<<"s">>)]),
    ProxyString(<<"h",":","8">>),
    ProxyString(<<"h",":","8",":","u",":","s">>),
    ProxyString(<<"h",":","8",":","u">>),
    ProxyString(<<"h",":","8",":",":","s">>),
    ProxyString(<<"h",":","8",":","u",":","s",":","x">>),
    ProxyString(<<"h">>) }

\* The proxies getToken is called with.
GetTokenProxies == {NoProxy, ProxyString(<<"h",":","8",":","u",":","s">>)}

\* What document.cookie may hold on the profile page.
CookieStrings ==
  { <<>>,
    <<"a","=","1">>,
    <<"a","=","1",";"," ">> \o bearerToken \o <<"e","y","A",";"," ","o","=","2">>,
    <<"a","=","1",";"," ">> \o bearerToken \o <<"e","y","A">>,
    <<"a","=","1",";"," ">> \o bearerToken \o <<"z","z">>,
    bearerToken \o <<"e","y","A">> }

\* Records the store may hold when the program starts: written by an earlier
\* cookie login (cookie flag set) or by the native login (flag unset, a
\* lifetime of an hour), each with 1001 ms left at the start.
TTL_MS == EXPIRES_IN * MS_PER_SECOND
T0 == TTL_MS
StoredRecord(token, expires_in, obtainedOn, cookie) ==
  [mca |-> Some([access_token |-> token, expires_in |-> expires_in,
                 obtainedOn |-> obtainedOn]),
   cookie |-> cookie, readable |-> TRUE]
NATIVE_EXPIRES_IN == EXPIRES_IN \div 24
CookieRecord == StoredRecord(<<"e","y","O">>, EXPIRES_IN, SAFETY_MARGIN + 1, TRUE)
NativeRecordAtStart ==
  StoredRecord(<<"e","y","N">>, NATIVE_EXPIRES_IN,
               T0 - NATIVE_EXPIRES_IN * MS_PER_SECOND + SAFETY_MARGIN + 1, FALSE)
InitSlots == {EmptySlot, UnreadableSlot, CookieRecord, NativeRecordAtStart}

\* The stores the program may start with.
InitStores == [Identities -> InitSlots]

\* The clock advances by one of these amounts: a millisecond, or all but the
\* last 1001 ms of a token's lifetime.
TickSteps == {1, TTL_MS - SAFETY_MARGIN - 1}

(***************************************************************************)
(* State.                                                                  *)
(***************************************************************************)
VARIABLES
  store,   \* identity -> slot of the credential store
  now,     \* Date.now()
  ticks,   \* how often the clock advanced
  call,    \* process -> the call it is executing (locals and position)
  hist,    \* process -> what the call has done so far (history)
  fresh    \* identity -> the last fresh Outcome returned for it (history)

vars == <<store, now, ticks, call, hist, fresh>>

\* A local the code no longer reads is put back to its value here, so that
\* states differing only in dead locals are one state.
IdleCall ==
  [op |-> "none", pc |-> "idle", referencedUsername |-> "",
   cookies |-> <<>>, proxyConfig |-> NoProxy, onlyCookieStorage |-> TRUE,
   cachedToken |-> None, proxy |-> None, proxyUrl |-> None,
   browser |-> "none",
   i |-> 0, wake |-> 0, accessToken |-> <<>>,
   thrown |-> None, ret |-> None, result |-> None,
   caller |-> "none",   \* "getToken" or a hook of createBot, when one called
   outer |-> None]      \* how that caller ended: what it returned or threw

NoHist ==
  [read |-> "none",     \* "ok" or "threw": how the read of the store ended
   cookieString |-> None,  \* document.cookie as read on the profile page
   token |-> None,      \* the token extracted from document.cookie
   launches |-> 0,      \* calls of puppeteer.launch that returned a browser
   closes |-> 0,        \* calls of browser.close
   writes |-> 0,        \* writes of the store
   faults |-> 0,        \* errors thrown towards the outer catch
   lastFault |-> None,  \* the message of the last of them
   skipped |-> 0,       \* supplied cookie entries the run passed over
                        \* without a call of context.setCookie
   rejected |-> 0,      \* calls of context.setCookie that threw
   native |-> 0,        \* calls of microsoftAuth.authenticate by a hook
   before |-> None,     \* the identity's slot when processAccount was called
   startedAt |-> 0,     \* Date.now() when processAccount was called, kept
                        \* until the read of the store
   overlap |-> FALSE,   \* the browser was launched while another call for
                        \* the same identity had its browser open
   cleared |-> "none"]  \* what the slot held when clearCache reset it:
                        \* "record", "absent" or "unreadable"

Init ==
  /\ store \in InitStores
  /\ now = T0
  /\ ticks = 0
  /\ call = [p \in Procs |-> IdleCall]
  /\ hist = [p \in Procs |-> NoHist]
  /\ fresh = [u \in Identities |-> None]

(***************************************************************************)
(* processAccount, step by step.  Each step function maps the call's       *)
(* record to the record after the step.                                    *)
(***************************************************************************)
\* The call returned outcome; browser tells what became of its browser.
Return(c, outcome) ==
  [IdleCall EXCEPT !.op = c.op, !.pc = "done",
                   !.referencedUsername = c.referencedUsername,
                   !.browser = c.browser, !.result = Some(outcome),
                   !.caller = c.caller]

\* Variant: the outer catch lets the error escape to the caller.
OuterCatch_Rethrow(c, message) == [c EXCEPT !.pc = "threw"]

\* catch (error): return { success: false, fromCache: false, error: message }
OuterCatch(c, message) == Return(c, Failure(Some(message)))

\* A throw inside the inner try: the finally block (browser.close) runs next.
InnerThrow(c, message) ==
  [c EXCEPT !.pc = "close", !.thrown = Some(message), !.ret = None,
            !.cookies = <<>>, !.i = 0, !.wake = 0, !.accessToken = <<>>]

\* A return inside the inner try: the finally block runs before the return.
InnerReturn(c, outcome) ==
  [c EXCEPT !.pc = "close", !.thrown = None, !.ret = Some(outcome),
            !.accessToken = <<>>]

\* Variant: an undefined result of getCachedAccessToken ends the call with a
\* failure attributed to the cache.
AfterCacheCheck_CacheFailure(c, cachedToken) ==
  IF cachedToken = None
  THEN Return(c, [Failure(None) EXCEPT !.fromCache = TRUE])
  ELSE IF cachedToken[1].valid THEN Return(c, CacheHit(cachedToken[1].token))
  ELSE [c EXCEPT !.pc = "prepare"]

\* Variant: an undefined result of getCachedAccessToken ends the call.
AfterCacheCheck_UndefinedFails(c, cachedToken) ==
  IF cachedToken = None THEN Return(c, Failure(None))
  ELSE IF cachedToken[1].valid THEN Return(c, CacheHit(cachedToken[1].token))
  ELSE [c EXCEPT !.pc = "prepare"]

\* The cache check of processAccount on the result of getCachedAccessToken.
AfterCacheCheck(c, cachedToken) ==
  IF cachedToken # None /\ cachedToken[1].valid
  THEN Return(c, CacheHit(cachedToken[1].token))
  ELSE [c EXCEPT !.pc = "prepare"]

\* typeof proxyConfig === "string" ? parseProxyString(proxyConfig) : proxyConfig
ResolveProxy(proxyConfig) ==
  CASE proxyConfig.kind = "string" -> Some(parseProxyString(proxyConfig.str))
    [] proxyConfig.kind = "object" -> Some(proxyConfig.cfg)
    [] OTHER -> None

\* Variant: the empty cookie list is not rejected.
Prepare_NoEmptyCheck(c) ==
  LET proxy == ResolveProxy(c.proxyConfig)
  IN IF proxy # None /\ UrlThrows(proxy[1])
     THEN [OuterCatch(c, "Invalid URL") EXCEPT !.proxy = proxy]
     ELSE [c EXCEPT !.pc = "launch", !.proxyConfig = NoProxy,
                    !.proxy = proxy,
                    !.proxyUrl = IF proxy = None THEN None
                                 ELSE Some(ProxyUrl(proxy[1]))]

\* From the proxy resolution to the call of puppeteer.launch.
Prepare(c) ==
  LET proxy == ResolveProxy(c.proxyConfig)
  IN IF Len(c.cookies) = 0
     THEN [Return(c, Failure(None)) EXCEPT !.proxy = proxy]
     ELSE IF proxy # None /\ UrlThrows(proxy[1])
     THEN [OuterCatch(c, "Invalid URL") EXCEPT !.proxy = proxy]
     ELSE [c EXCEPT !.pc = "launch", !.proxyConfig = NoProxy,
                    !.proxy = proxy,
                    !.proxyUrl = IF proxy = None THEN None
                                 ELSE Some(ProxyUrl(proxy[1]))]

\* cookies.some(cookie => cookie.domain is one of the login domains)
hasMicrosoftCookies(cookies) ==
  \E k \in 1 .. Len(cookies) :
     cookies[k].domain \in {".live.com", "login.live.com", ".login.live.com"}

\* Variant: the supplied cookies are injected whatever their domains.
AfterClearCookies_AlwaysInject(c) == [c EXCEPT !.pc = "gotoLoginFirst"]

\* After the pre-existing cookies were deleted.
AfterClearCookies(c) ==
  IF hasMicrosoftCookies(c.cookies)
  THEN [c EXCEPT !.pc = "gotoLoginFirst"]
  ELSE [c EXCEPT !.pc = "gotoLogin", !.cookies = <<>>]

\* Variant: the provider login page is not visited again after the injection.
AfterSetCookie_SkipRenavigation(c, set) ==
  IF c.i + 1 > Len(c.cookies)
  THEN [c EXCEPT !.i = 0, !.cookies = <<>>, !.pc = "gotoMinecraft"]
  ELSE [c EXCEPT !.i = c.i + 1]

\* Variant: a failed context.setCookie ends the loop.
AfterSetCookie_StopOnFailure(c, set) ==
  IF ~set \/ c.i + 1 > Len(c.cookies)
  THEN [c EXCEPT !.i = 0, !.cookies = <<>>, !.pc = "gotoLogin"]
  ELSE [c EXCEPT !.i = c.i + 1]

\* One pass of the loop over the supplied cookies; set tells whether
\* context.setCookie succeeded (a failure is caught and logged, and the loop
\* goes on either way).
AfterSetCookie(c, set) ==
  IF c.i + 1 > Len(c.cookies)
  THEN [c EXCEPT !.i = 0, !.cookies = <<>>, !.pc = "gotoLogin"]
  ELSE [c EXCEPT !.i = c.i + 1]

\* Variant: after a rejected token the profile page is loaded and read again.
AfterEvaluate_RetryOnReject(c, cookieString) ==
  LET accessToken == extractAccessToken(cookieString)
  IN IF TokenAccepted(accessToken)
     THEN [c EXCEPT !.accessToken = accessToken, !.pc = "save"]
     ELSE [c EXCEPT !.pc = "gotoProfile"]

\* After document.cookie was read: extract the token and accept or reject it.
AfterEvaluate(c, cookieString) ==
  LET accessToken == extractAccessToken(cookieString)
  IN IF TokenAccepted(accessToken)
     THEN [c EXCEPT !.accessToken = accessToken, !.pc = "save"]
     ELSE InnerReturn(c, Failure(None))

\* After the awaited save: return the fresh token.
AfterSave(c) == InnerReturn(c, Authenticated(c.accessToken))

\* After browser.close() of the finally block returned: the pending throw
\* reaches the outer catch, or the pending return completes.
AfterClose(c) ==
  IF c.thrown # None
  THEN OuterCatch([c EXCEPT !.browser = "closed"], c.thrown[1])
  ELSE Return([c EXCEPT !.browser = "closed"], c.ret[1])

\* browser.close() itself threw: its error replaces the pending completion.
AfterCloseThrows(c) == OuterCatch(c, "close")

Threw(h, message) ==
  [h EXCEPT !.faults = @ + 1, !.lastFault = Some(message)]

(***************************************************************************)
(* Actions.                                                                *)
(***************************************************************************)
\* p is in no call.
Idle(p) == call[p].pc = "idle"

\* p's call, and the caller of that call if it had one, have ended.
Ended(p) ==
  /\ call[p].pc = "done"
  /\ call[p].caller # "none" => call[p].outer # None

\* The result of p's call has been taken: p is free for its next call.
Finish(p) ==
  /\ Ended(p)
  /\ call' = [call EXCEPT ![p] = IdleCall]
  /\ hist' = [hist EXCEPT ![p] = NoHist]
  /\ UNCHANGED <<store, now, ticks, fresh>>

Slot(p) == generateCacheFileName(call[p].referencedUsername)

\* The history of a processAccount call for username that starts now.
Started(username) ==
  [NoHist EXCEPT !.before = Some(store[generateCacheFileName(username)]),
                 !.startedAt = now]

\* fresh after a write or reset of username's slot: what an earlier call
\* returned for it no longer tells what the slot holds.
Touched(username) ==
  [fresh EXCEPT ![generateCacheFileName(username)] = None]

\* fresh after the slots became store', username's being the one accessed.
AfterAccess(username) ==
  IF store' = store THEN fresh ELSE Touched(username)

\* fresh after p's call returned outcome: a token of a session run is noted
\* with the time of the return.
AfterReturn(p, outcome) ==
  IF outcome.success /\ ~outcome.fromCache
  THEN [fresh EXCEPT ![Slot(p)] = Some([at |-> now, token |-> outcome.token[1]])]
  ELSE fresh

\* processAccount(referencedUsername, cookies, proxyConfig) is called, with
\* arguments from the given sets, and runs to its first await, the read of
\* the store.
ProcessAccountWith(p, usernames, cookieLists, proxyConfigs) ==
  /\ Idle(p)
  /\ \E u \in usernames, cs \in cookieLists, px \in proxyConfigs :
       /\ call' = [call EXCEPT ![p] =
                  [IdleCall EXCEPT !.op = "processAccount", !.pc = "getCached",
                                   !.referencedUsername = u, !.cookies = cs,
                                   !.proxyConfig = px]]
       /\ hist' = [hist EXCEPT ![p] = Started(u)]
  /\ UNCHANGED <<store, now, ticks, fresh>>

ProcessAccount(p) == ProcessAccountWith(p, Identities, CookieLists, ProxyConfigs)

\* await this.getCachedAccessToken(referencedUsername), then the cache check
CheckCache(p) ==
  /\ call[p].op = "processAccount" /\ call[p].pc = "getCached"
  /\ call' = [call EXCEPT ![p] = AfterCacheCheck(@,
                 getCachedAccessToken(store[Slot(p)], TRUE, now))]
  /\ hist' = [hist EXCEPT ![p].read =
                 IF store[Slot(p)].readable THEN "ok" ELSE "threw",
                           ![p].startedAt = 0]
  /\ store' = [store EXCEPT ![Slot(p)] = AfterGetCached(@)]
  /\ fresh' = AfterAccess(call[p].referencedUsername)
  /\ UNCHANGED <<now, ticks>>

\* The synchronous stretch from the cache miss to puppeteer.launch.
PrepareSession(p) ==
  /\ call[p].pc = "prepare"
  /\ call' = [call EXCEPT ![p] = Prepare(@)]
  /\ hist' = [hist EXCEPT ![p] =
                IF Len(call[p].cookies) # 0 /\ Prepare(call[p]).pc = "done"
                THEN Threw(@, "Invalid URL") ELSE @]
  /\ UNCHANGED <<store, now, ticks, fresh>>

\* Another call for the identity of p's call has its browser open.
OtherSessionOpen(p) ==
  \E q \in DOMAIN call \ {p} :
     /\ call[q].browser = "open"
     /\ call[q].referencedUsername = call[p].referencedUsername

\* Variant: the launch waits until no other call for the identity has a
\* browser open.
Launch_Serialized(p) ==
  /\ call[p].pc = "launch"
  /\ ~OtherSessionOpen(p)
  /\ \/ /\ call' = [call EXCEPT ![p].pc = "newPage", ![p].browser = "open"]
        /\ hist' = [hist EXCEPT ![p].launches = @ + 1]
     \/ /\ call' = [call EXCEPT ![p] = OuterCatch(@, "launch")]
        /\ hist' = [hist EXCEPT ![p] = Threw(@, "launch")]
  /\ UNCHANGED <<store, now, ticks, fresh>>

\* await puppeteer.launch(...)
Launch(p) ==
  /\ call[p].pc = "launch"
  /\ \/ /\ call' = [call EXCEPT ![p].pc = "newPage", ![p].browser = "open"]
        /\ hist' = [hist EXCEPT ![p].launches = @ + 1,
                                 ![p].overlap = OtherSessionOpen(p)]
     \/ /\ call' = [call EXCEPT ![p] = OuterCatch(@, "launch")]
        /\ hist' = [hist EXCEPT ![p] = Threw(@, "launch")]
  /\ UNCHANGED <<store, now, ticks, fresh>>

\* A step between the launch and the inner try: a throw goes straight to the
\* outer catch.
SetupStep(p, at, after) ==
  /\ call[p].pc = at
  /\ \/ /\ call' = [call EXCEPT ![p] = after]
        /\ UNCHANGED hist
     \/ /\ call' = [call EXCEPT ![p] = OuterCatch(@, at)]
        /\ hist' = [hist EXCEPT ![p] = Threw(@, at)]
  /\ UNCHANGED <<store, now, ticks, fresh>>

\* await browser.newPage()
NewPage(p) ==
  SetupStep(p, "newPage",
            IF NeedsProxyAuth(call[p].proxyUrl)
            THEN [call[p] EXCEPT !.pc = "authenticate"]
            ELSE [call[p] EXCEPT !.pc = "setUserAgent", !.proxy = None,
                                 !.proxyUrl = None])

\* await page.authenticate({username, password})
Authenticate(p) ==
  SetupStep(p, "authenticate",
            [call[p] EXCEPT !.pc = "setUserAgent", !.proxy = None,
                            !.proxyUrl = None])

\* await page.setUserAgent(...)
SetUserAgent(p) ==
  SetupStep(p, "setUserAgent", [call[p] EXCEPT !.pc = "clearCookies"])

\* A step inside the inner try: a throw runs the finally block.
PageStep(p, at, after) ==
  /\ call[p].pc = at
  /\ \/ /\ call' = [call EXCEPT ![p] = after]
        /\ UNCHANGED hist
     \/ /\ call' = [call EXCEPT ![p] = InnerThrow(@, at)]
        /\ hist' = [hist EXCEPT ![p] = Threw(@, at)]
  /\ UNCHANGED <<store, now, ticks, fresh>>

\* context.cookies() and the deleteCookie loop
ClearCookies(p) ==
  /\ call[p].pc = "clearCookies"
  /\ \/ /\ call' = [call EXCEPT ![p] = AfterClearCookies(@)]
        /\ hist' = [hist EXCEPT ![p].skipped =
                       IF AfterClearCookies(call[p]).pc = "gotoLogin"
                       THEN Len(call[p].cookies) ELSE 0]
     \/ /\ call' = [call EXCEPT ![p] = InnerThrow(@, "clearCookies")]
        /\ hist' = [hist EXCEPT ![p] = Threw(@, "clearCookies")]
  /\ UNCHANGED <<store, now, ticks, fresh>>

\* await page.goto("https://login.live.com") before the injection
GotoLoginFirst(p) ==
  PageStep(p, "gotoLoginFirst", [call[p] EXCEPT !.pc = "setCookie", !.i = 1])

\* await context.setCookie(cookie) in its own try/catch
SetCookie(p) ==
  /\ call[p].pc = "setCookie"
  /\ \/ /\ call' = [call EXCEPT ![p] = AfterSetCookie(@, TRUE)]
        /\ UNCHANGED hist
     \/ /\ call' = [call EXCEPT ![p] = AfterSetCookie(@, FALSE)]
        /\ hist' = [hist EXCEPT ![p].rejected = @ + 1]
  /\ UNCHANGED <<store, now, ticks, fresh>>

\* await page.goto("https://login.live.com")
GotoLogin(p) == PageStep(p, "gotoLogin", [call[p] EXCEPT !.pc = "reload"])

\* await page.reload()
Reload(p) == PageStep(p, "reload", [call[p] EXCEPT !.pc = "gotoMinecraft"])

\* await page.goto("https://www.minecraft.net/en-us/login")
GotoMinecraft(p) ==
  PageStep(p, "gotoMinecraft", [call[p] EXCEPT !.pc = "waitForSelector"])

\* await page.waitForSelector(msaButton)
WaitForSelector(p) ==
  PageStep(p, "waitForSelector", [call[p] EXCEPT !.pc = "click"])

\* await page.click(msaButton); the settle timer is set right after
Click(p) ==
  PageStep(p, "click", [call[p] EXCEPT !.pc = "settle", !.wake = now + SETTLE_MS])

\* await new Promise(resolve => setTimeout(resolve, 3000))
Settle(p) ==
  /\ call[p].pc = "settle"
  /\ now >= call[p].wake
  /\ call' = [call EXCEPT ![p].pc = "gotoProfile", ![p].wake = 0]
  /\ UNCHANGED <<store, now, ticks, hist, fresh>>

\* await page.goto(".../msaprofile/mygames")
GotoProfile(p) == PageStep(p, "gotoProfile", [call[p] EXCEPT !.pc = "evaluate"])

\* await page.evaluate(() => document.cookie), then the token check
Evaluate(p) ==
  /\ call[p].pc = "evaluate"
  /\ \/ \E cookieString \in CookieStrings :
          /\ call' = [call EXCEPT ![p] = AfterEvaluate(@, cookieString)]
          /\ hist' = [hist EXCEPT ![p].token =
                         Some(extractAccessToken(cookieString)),
                                  ![p].cookieString = Some(cookieString)]
     \/ /\ call' = [call EXCEPT ![p] = InnerThrow(@, "evaluate")]
        /\ hist' = [hist EXCEPT ![p] = Threw(@, "evaluate")]
  /\ UNCHANGED <<store, now, ticks, fresh>>

\* createAuthCacheObject and await saveAuthCacheObject(cacheFile, authCache)
Save(p) ==
  /\ call[p].pc = "save"
  /\ \/ /\ store' = [store EXCEPT ![Slot(p)] = saveAuthCacheObject(
                        createAuthCacheObject(call[p].accessToken, now), now)]
        /\ call' = [call EXCEPT ![p] = AfterSave(@)]
        /\ hist' = [hist EXCEPT ![p].writes = @ + 1]
        /\ fresh' = Touched(call[p].referencedUsername)
     \/ /\ call' = [call EXCEPT ![p] = InnerThrow(@, "save")]
        /\ hist' = [hist EXCEPT ![p] = Threw(@, "save")]
        /\ UNCHANGED <<store, fresh>>
  /\ UNCHANGED <<now, ticks>>

\* finally { await browser.close() }
Close(p) ==
  /\ call[p].pc = "close"
  /\ \/ /\ call' = [call EXCEPT ![p] = AfterClose(@)]
        /\ hist' = [hist EXCEPT ![p].closes = @ + 1]
        /\ fresh' = AfterReturn(p, AfterClose(call[p]).result[1])
     \/ /\ call' = [call EXCEPT ![p] = AfterCloseThrows(@)]
        /\ hist' = [hist EXCEPT ![p] = Threw([@ EXCEPT !.closes = @ + 1], "close")]
        /\ UNCHANGED fresh
  /\ UNCHANGED <<store, now, ticks>>

\* getCachedAccessToken(referencedUsername, onlyCookieStorage) called on its
\* own: the result is left in cachedToken.
GetCachedAccessToken(p) ==
  /\ Idle(p)
  /\ \E u \in Identities, onlyCookieStorage \in BOOLEAN :
       /\ call' = [call EXCEPT ![p] =
            [IdleCall EXCEPT !.op = "getCachedAccessToken", !.pc = "done",
                             !.referencedUsername = u,
                             !.onlyCookieStorage = onlyCookieStorage,
                             !.cachedToken = getCachedAccessToken(
                                store[generateCacheFileName(u)],
                                onlyCookieStorage, now)]]
       /\ hist' = [hist EXCEPT ![p] =
            [NoHist EXCEPT !.read =
               IF store[generateCacheFileName(u)].readable THEN "ok" ELSE "threw"]]
       /\ store' = [store EXCEPT ![generateCacheFileName(u)] = AfterGetCached(@)]
       /\ fresh' = AfterAccess(u)
  /\ UNCHANGED <<now, ticks>>

\* getToken(referencedUsername, cookies, proxyConfig) is called: it calls
\* processAccount with its arguments and awaits it.
GetToken(p) ==
  /\ Idle(p)
  /\ \E u \in Identities, cs \in CookieLists, px \in GetTokenProxies :
       /\ call' = [call EXCEPT ![p] =
                  [IdleCall EXCEPT !.op = "processAccount", !.pc = "getCached",
                                   !.referencedUsername = u, !.cookies = cs,
                                   !.proxyConfig = px, !.caller = "getToken"]]
       /\ hist' = [hist EXCEPT ![p] = Started(u)]
  /\ UNCHANGED <<store, now, ticks, fresh>>

\* getToken resumes with the Outcome: it returns the token or throws.
GetTokenResume(p) ==
  /\ call[p].caller = "getToken" /\ call[p].pc = "done"
  /\ call[p].outer = None
  /\ call' = [call EXCEPT ![p].outer = Some(getToken(call[p].result[1]))]
  /\ UNCHANGED <<store, now, ticks, hist, fresh>>

(***************************************************************************)
(* clearCache and the auth hooks of createBot (src/src/impl.ts).           *)
(***************************************************************************)
\* What a slot holds, as far as a reset is concerned.
Held(slot) ==
  IF ~slot.readable THEN "unreadable"
  ELSE IF slot.mca = None THEN "absent" ELSE "record"

\* clearCache(username) called on its own.
ClearCache(p) ==
  /\ Idle(p)
  /\ \E u \in Identities :
       /\ store' = [store EXCEPT ![generateCacheFileName(u)] = clearCache(@)]
       /\ fresh' = Touched(u)
       /\ call' = [call EXCEPT ![p] =
            [IdleCall EXCEPT !.op = "clearCache", !.pc = "done",
                             !.referencedUsername = u]]
       /\ hist' = [hist EXCEPT ![p] =
            [NoHist EXCEPT !.cleared = Held(store[generateCacheFileName(u)])]]
  /\ UNCHANGED <<now, ticks>>

\* botOptions.cookieOptions: not given, given without cookies, or given with
\* a cookie list.
NoCookieOptions == [given |-> FALSE, cookies |-> None]
CookieOptions(cookies) == [given |-> TRUE, cookies |-> cookies]
CookieOptionsSet ==
  {NoCookieOptions, CookieOptions(None)}
    \cup {CookieOptions(Some(cs)) : cs \in CookieLists}

\* !cookieOptions || !cookieOptions.cookies
MissingCookies(cookieOptions) ==
  ~cookieOptions.given \/ cookieOptions.cookies = None

\* A hook ends with an error before it called the authenticator.
HookThrows(hook, message) ==
  [IdleCall EXCEPT !.op = hook, !.pc = "done", !.caller = hook,
                   !.outer = Some(Rejected(message))]

\* authenticateWithCache up to the first await of processAccount;
\* constructed tells whether new MinecraftAuthenticator(...) returned (it
\* throws when the cache directory cannot be made).
authenticateWithCache(cookieOptions, username, constructed) ==
  IF MissingCookies(cookieOptions)
  THEN HookThrows("authenticateWithCache",
                  "Missing cookie options for authentication.")
  ELSE IF ~constructed
  THEN HookThrows("authenticateWithCache", "mkdir")
  ELSE [IdleCall EXCEPT !.op = "processAccount", !.pc = "getCached",
                        !.referencedUsername = username,
                        !.cookies = cookieOptions.cookies[1],
                        !.caller = "authenticateWithCache"]

\* The hook createBot installs for auth: "cookies".
cookiesAuth(cookieOptions, username, constructed) ==
  IF MissingCookies(cookieOptions)
  THEN HookThrows("authenticateWithCache",
                  "Missing cookie path for authentication in bot options.")
  ELSE authenticateWithCache(cookieOptions, username, constructed)

\* Variant: the native authentication is skipped after a successful
\* pre-authentication.
AfterPreAuth_SkipOnSuccess(c) ==
  IF c.result[1].success THEN [c EXCEPT !.outer = Some(Resolved(None))]
  ELSE [c EXCEPT !.pc = "native"]

\* authenticateWithCache after the awaited processAccount: the finally block
\* runs whatever the Outcome.
AfterPreAuth(c) == [c EXCEPT !.pc = "native"]

\* maybeClearCookieCache up to the first await of getCachedAccessToken.
maybeClearCookieCache(username, constructed) ==
  IF ~constructed
  THEN HookThrows("maybeClearCookieCache", "mkdir")
  ELSE [IdleCall EXCEPT !.op = "maybeClearCookieCache", !.pc = "hookGetCached",
                        !.referencedUsername = username,
                        !.caller = "maybeClearCookieCache"]

\* Variant: only a record that is still valid is cleared.
ShouldClear_OnlyValid(res) ==
  res # None /\ res[1].is_cookie /\ res[1].valid

\* res != null, and then res.is_cookie
ShouldClear(res) == res # None /\ res[1].is_cookie

\* The "cookies" hook is invoked.
CookiesAuth(p) ==
  /\ Idle(p)
  /\ \E cookieOptions \in CookieOptionsSet, u \in Identities,
        constructed \in BOOLEAN :
       /\ call' = [call EXCEPT ![p] = cookiesAuth(cookieOptions, u, constructed)]
       /\ hist' = [hist EXCEPT ![p] =
                     IF cookiesAuth(cookieOptions, u, constructed).op
                          = "processAccount"
                     THEN Started(u) ELSE NoHist]
  /\ UNCHANGED <<store, now, ticks, fresh>>

\* authenticateWithCache resumes with the Outcome of processAccount.
PreAuthDone(p) ==
  /\ call[p].caller = "authenticateWithCache"
  /\ call[p].op = "processAccount" /\ call[p].pc = "done"
  /\ call[p].outer = None
  /\ call' = [call EXCEPT ![p] = AfterPreAuth(@)]
  /\ UNCHANGED <<store, now, ticks, hist, fresh>>

\* The "microsoft" hook (maybeClearCookieCache) is invoked.
MicrosoftAuth(p) ==
  /\ Idle(p)
  /\ \E u \in Identities, constructed \in BOOLEAN :
       call' = [call EXCEPT ![p] = maybeClearCookieCache(u, constructed)]
  /\ hist' = [hist EXCEPT ![p] = NoHist]
  /\ UNCHANGED <<store, now, ticks, fresh>>

\* const res = await auth.getCachedAccessToken(clientOptions.username)
HookGetCached(p) ==
  /\ call[p].pc = "hookGetCached"
  /\ call' = [call EXCEPT ![p].pc = "hookClear",
                          ![p].cachedToken =
                             getCachedAccessToken(store[Slot(p)], TRUE, now)]
  /\ hist' = [hist EXCEPT ![p].read =
                 IF store[Slot(p)].readable THEN "ok" ELSE "threw"]
  /\ store' = [store EXCEPT ![Slot(p)] = AfterGetCached(@)]
  /\ fresh' = AfterAccess(call[p].referencedUsername)
  /\ UNCHANGED <<now, ticks>>

\* if (res != null) { if (res.is_cookie) await auth.clearCache(username) }
HookClear(p) ==
  /\ call[p].pc = "hookClear"
  /\ IF ShouldClear(call[p].cachedToken)
     THEN /\ store' = [store EXCEPT ![Slot(p)] = clearCache(@)]
          /\ hist' = [hist EXCEPT ![p].cleared = Held(store[Slot(p)])]
          /\ fresh' = Touched(call[p].referencedUsername)
     ELSE UNCHANGED <<store, hist, fresh>>
  /\ call' = [call EXCEPT ![p].pc = "native"]
  /\ UNCHANGED <<now, ticks>>

\* finally { await microsoftAuth.authenticate(client, clientOptions) }: the
\* native authentication returns or throws, and the hook ends with it.
NativeAuthenticate(p) ==
  /\ call[p].pc = "native"
  /\ \E outer \in {Resolved(None), Rejected("native")} :
       call' = [call EXCEPT ![p].pc = "done", ![p].outer = Some(outer)]
  /\ hist' = [hist EXCEPT ![p].native = @ + 1]
  /\ UNCHANGED <<store, now, ticks, fresh>>

\* Time passes.
Tick ==
  /\ ticks < MaxTicks
  /\ \E d \in TickSteps : now' = now + d
  /\ ticks' = ticks + 1
  /\ UNCHANGED <<store, call, hist, fresh>>

Next ==
  \/ Tick
  \/ \E p \in Procs :
       \/ ProcessAccount(p)
       \/ CheckCache(p)
       \/ PrepareSession(p)
       \/ Launch(p)
       \/ NewPage(p)
       \/ Authenticate(p)
       \/ SetUserAgent(p)
       \/ ClearCookies(p)
       \/ GotoLoginFirst(p)
       \/ SetCookie(p)
       \/ GotoLogin(p)
       \/ Reload(p)
       \/ GotoMinecraft(p)
       \/ WaitForSelector(p)
       \/ Click(p)
       \/ Settle(p)
       \/ GotoProfile(p)
       \/ Evaluate(p)
       \/ Save(p)
       \/ Close(p)
       \/ GetCachedAccessToken(p)
       \/ GetToken(p)
       \/ GetTokenResume(p)
       \/ ClearCache(p)
       \/ CookiesAuth(p)
       \/ PreAuthDone(p)
       \/ MicrosoftAuth(p)
       \/ HookGetCached(p)
       \/ HookClear(p)
       \/ NativeAuthenticate(p)
       \/ Finish(p)

Spec == Init /\ [][Next]_vars

(***************************************************************************)
(* One call, with every awaited operation returning or throwing in the     *)
(* end.  The event loop resumes a call once the promise it awaits has      *)
(* settled, and the clock reaches the instant the settle timer is set for. *)
(***************************************************************************)
\* setTimeout(resolve, 3000): time passes until the timer is due.
SettleTimerElapses(p) ==
  /\ call[p].pc = "settle"
  /\ now < call[p].wake
  /\ now' = call[p].wake
  /\ UNCHANGED <<store, ticks, call, hist, fresh>>

\* A step of p's processAccount call: the operation it awaits returns or
\* throws and the call runs to its next await or to its return.
StepOf(p) ==
  \/ CheckCache(p)
  \/ PrepareSession(p)
  \/ Launch(p)
  \/ NewPage(p)
  \/ Authenticate(p)
  \/ SetUserAgent(p)
  \/ ClearCookies(p)
  \/ GotoLoginFirst(p)
  \/ SetCookie(p)
  \/ GotoLogin(p)
  \/ Reload(p)
  \/ GotoMinecraft(p)
  \/ WaitForSelector(p)
  \/ Click(p)
  \/ Settle(p)
  \/ GotoProfile(p)
  \/ Evaluate(p)
  \/ Save(p)
  \/ Close(p)

\* The proxy configurations of these calls: none, or an object, whose port
\* may be no number.
LiveProxies ==
  { NoProxy,
    ProxyObject([server |-> Some(<<"h">>), port |-> Some(<<"8">>),
                 username |-> Some(<<"u">>), password |-> Some(<<"s">>)]),
    ProxyObject([server |-> Some(<<"h">>), port |-> Some(<<"x">>),
                 username |-> None, password |-> None]) }

NextLive ==
  \/ Tick
  \/ \E p \in Procs :
       \/ ProcessAccountWith(p, {"alice"}, CookieLists, LiveProxies)
       \/ StepOf(p)
       \/ SettleTimerElapses(p)

SpecLive ==
  /\ Init
  /\ [][NextLive]_vars
  /\ \A p \in Procs : WF_vars(StepOf(p)) /\ WF_vars(SettleTimerElapses(p))

(***************************************************************************)
(* Two callers at once.  Nothing in MinecraftAuthenticator keeps a second  *)
(* processAccount call from starting while a first one is at an await, so  *)
(* the steps of two calls interleave at every await.  Both calls are for   *)
(* the same identity, whose slot is empty at the start.                    *)
(***************************************************************************)
ProcsConcurrent == {"p1", "p2"}

InitConcurrent ==
  /\ store = [u \in Identities |-> EmptySlot]
  /\ now = T0
  /\ ticks = 0
  /\ call = [p \in ProcsConcurrent |-> IdleCall]
  /\ hist = [p \in ProcsConcurrent |-> NoHist]
  /\ fresh = [u \in Identities |-> None]

NextConcurrent ==
  \/ Tick
  \/ \E p \in ProcsConcurrent :
       \/ ProcessAccountWith(p, {"alice"}, {<<Cookie(".live.com")>>}, {NoProxy})
       \/ CheckCache(p)
       \/ PrepareSession(p)
       \/ Launch(p)
       \/ NewPage(p)
       \/ SetUserAgent(p)
       \/ ClearCookies(p)
       \/ GotoLoginFirst(p)
       \/ SetCookie(p)
       \/ GotoLogin(p)
       \/ Reload(p)
       \/ GotoMinecraft(p)
       \/ WaitForSelector(p)
       \/ Click(p)
       \/ Settle(p)
       \/ GotoProfile(p)
       \/ Evaluate(p)
       \/ Save(p)
       \/ Close(p)

SpecConcurrent == InitConcurrent /\ [][NextConcurrent]_vars

(***************************************************************************)
(* Properties.                                                             *)
(***************************************************************************)
\* p takes a step of its call.
Steps(p) == call'[p] # call[p]

\* p's processAccount call returns in this step.
Returns(p) ==
  /\ call[p].op = "processAccount" /\ call[p].pc # "done"
  /\ call'[p].pc = "done"

\* p's processAccount call has returned.
Returned(p) == call[p].op = "processAccount" /\ call[p].pc = "done"

\* The slot holds a record of the cookie path with more than 1000 ms left at t.
ValidCookieRecord(slot, t) ==
  /\ slot.readable /\ slot.mca # None /\ slot.cookie
  /\ slot.mca[1].obtainedOn + slot.mca[1].expires_in * 1000 - t > 1000

BeginsWithEy(token) == Len(token) >= 2 /\ token[1] = "e" /\ token[2] = "y"

\* C1: when the slot of the identity holds a cookie-origin record with more
\* than 1000 ms left, the cache check of processAccount returns
\* {success: true, fromCache: true, token: the stored token}, whatever the
\* cookie list and the proxy, and no browser was launched.
C1_CacheHitWithoutSession ==
  [][\A p \in Procs :
       (call[p].op = "processAccount" /\ call[p].pc = "getCached" /\ Steps(p)
        /\ ValidCookieRecord(store[Slot(p)], now))
       => /\ call'[p].pc = "done"
          /\ call'[p].result =
               Some([success |-> TRUE, fromCache |-> TRUE,
                     token |-> Some(store[Slot(p)].mca[1].access_token),
                     error |-> None])
          /\ call'[p].browser = "none"
          /\ hist'[p].launches = 0
          /\ store' = store]_vars

\* A call answered from the cache, with the token stored at the start.
C1_Witness ==
  \E p \in Procs :
    /\ Returned(p)
    /\ call[p].result = Some([success |-> TRUE, fromCache |-> TRUE,
                              token |-> Some(<<"e","y","O">>), error |-> None])
    /\ hist[p].launches = 0

\* C2 as stated: a call whose session extracted a token beginning with "ey"
\* has written the store exactly once and returns
\* {success: true, fromCache: false, token}.
C2_AcceptedTokenAlwaysSaved ==
  \A p \in Procs :
    (Returned(p) /\ hist[p].token # None /\ BeginsWithEy(hist[p].token[1]))
    => /\ hist[p].writes = 1
       /\ call[p].result = Some([success |-> TRUE, fromCache |-> FALSE,
                                 token |-> hist[p].token, error |-> None])

\* C2, amended: during a processAccount call the store is written only by the
\* save step, at most once and before the call returns; the save that
\* returns writes the
\* record {token, expires_in 86400, obtainedOn = the time of the write,
\* cookie flag}; and a call whose session extracted a token beginning with
\* "ey" and in which neither the write nor the teardown threw has written
\* exactly once and returns {success: true, fromCache: false, token}.  A
\* save that throws writes nothing, and a call in which the write or the
\* teardown threw returns {success: false, fromCache: false, error}.
C2_AcceptedTokenSavedUnlessFault ==
  [][\A p \in Procs :
       /\ (call[p].pc = "save" /\ Steps(p) /\ hist'[p].faults = hist[p].faults)
          => /\ hist[p].writes = 0 /\ hist'[p].writes = 1
             /\ BeginsWithEy(hist[p].token[1])
             /\ call'[p].result = None
             /\ store' = [store EXCEPT ![Slot(p)] =
                  [mca |-> Some([access_token |-> hist[p].token[1],
                                 expires_in |-> 86400, obtainedOn |-> now]),
                   cookie |-> TRUE, readable |-> TRUE]]
       /\ (call[p].op = "processAccount" /\ call[p].pc \notin {"done", "native"}
           /\ (store' # store \/ hist'[p].writes > hist[p].writes))
          => (call[p].pc = "save" /\ hist'[p].writes = hist[p].writes + 1)
       /\ (Returns(p) /\ hist'[p].token # None
           /\ BeginsWithEy(hist'[p].token[1]) /\ hist'[p].faults = 0)
          => /\ hist'[p].writes = 1
             /\ call'[p].result =
                  Some([success |-> TRUE, fromCache |-> FALSE,
                        token |-> hist'[p].token, error |-> None])
       /\ (call[p].pc = "save" /\ Steps(p) /\ hist'[p].faults > hist[p].faults)
          => (store' = store /\ hist'[p].writes = hist[p].writes)
       /\ (Returns(p) /\ hist'[p].token # None
           /\ BeginsWithEy(hist'[p].token[1]) /\ hist'[p].faults > 0)
          => /\ hist'[p].writes <= 1
             /\ call'[p].result =
                  Some([success |-> FALSE, fromCache |-> FALSE,
                        token |-> None, error |-> hist'[p].lastFault])]_vars

\* A call that authenticated afresh and left its record in the slot.
C2_Witness ==
  \E p \in Procs :
    /\ Returned(p) /\ hist[p].writes = 1 /\ hist[p].faults = 0
    /\ call[p].result = Some([success |-> TRUE, fromCache |-> FALSE,
                              token |-> Some(<<"e","y","A">>), error |-> None])
    /\ store[Slot(p)].mca # None
    /\ store[Slot(p)].mca[1].access_token = <<"e","y","A">>
    /\ store[Slot(p)].cookie

\* C3: once the session extracted a token that does not begin with "ey" (the
\* empty token included) the call writes nothing, and it returns
\* {success: false, fromCache: false}.
C3_RejectedTokenNotSaved ==
  \A p \in Procs :
    (call[p].op = "processAccount" /\ hist[p].token # None
     /\ ~BeginsWithEy(hist[p].token[1]))
    => /\ hist[p].writes = 0
       /\ call[p].pc # "save"
       /\ call[p].pc = "done"
          => /\ call[p].result # None
             /\ ~call[p].result[1].success
             /\ ~call[p].result[1].fromCache
             /\ call[p].result[1].token = None

\* A call that returned failure after extracting the token "zz".
C3_Witness ==
  \E p \in Procs :
    /\ Returned(p) /\ hist[p].token = Some(<<"z","z">>)
    /\ call[p].result = Some([success |-> FALSE, fromCache |-> FALSE,
                              token |-> None, error |-> None])

\* C4: when the slot holds no valid cookie-origin record the cache check
\* goes on to the cookie check, and with an empty cookie list the call then
\* returns {success: false, fromCache: false} with no browser launched and
\* the store untouched, whatever the proxy.
C4_EmptyCookiesRejected ==
  [][\A p \in Procs :
       /\ (call[p].op = "processAccount" /\ call[p].pc = "getCached" /\ Steps(p)
           /\ ~ValidCookieRecord(store[Slot(p)], now))
          => /\ call'[p].pc = "prepare"
             /\ call'[p].cookies = call[p].cookies
             /\ store' = store
       /\ (call[p].pc = "prepare" /\ Steps(p) /\ call[p].cookies = <<>>)
          => /\ call'[p].pc = "done"
             /\ call'[p].result = Some([success |-> FALSE, fromCache |-> FALSE,
                                        token |-> None, error |-> None])
             /\ call'[p].browser = "none"
             /\ hist'[p].launches = 0 /\ hist'[p].writes = 0
             /\ store' = store]_vars

\* A call that was rejected for its empty cookie list.
C4_Witness ==
  \E p \in Procs :
    /\ Returned(p) /\ hist[p].read # "none" /\ hist[p].token = None
    /\ hist[p].launches = 0 /\ hist[p].faults = 0
    /\ call[p].result = Some([success |-> FALSE, fromCache |-> FALSE,
                              token |-> None, error |-> None])

\* C5 as stated: a call that launched a browser has closed it exactly once
\* when it returns.
C5_TeardownExactlyOnce ==
  \A p \in Procs :
    (Returned(p) /\ hist[p].launches = 1) => hist[p].closes = 1

\* C6: no error escapes processAccount; a call in which a session step, the
\* cache write or the teardown threw returns
\* {success: false, fromCache: false, error: the message thrown}.
C6_ErrorsBecomeOutcomes ==
  \A p \in Procs :
    /\ call[p].pc # "threw"
    /\ (Returned(p) /\ hist[p].faults > 0)
       => call[p].result = Some([success |-> FALSE, fromCache |-> FALSE,
                                 token |-> None, error |-> hist[p].lastFault])

\* A call that returned the error of a failed cache write.
C6_Witness ==
  \E p \in Procs :
    /\ Returned(p) /\ hist[p].faults = 1 /\ hist[p].lastFault = Some("save")
    /\ call[p].result = Some([success |-> FALSE, fromCache |-> FALSE,
                              token |-> None, error |-> Some("save")])

\* C7 as stated: a call in which the read of the store threw returns
\* success: false.
C7_UnreadableCacheFails ==
  \A p \in Procs :
    (Returned(p) /\ hist[p].read = "threw") => ~call[p].result[1].success

\* C7, amended: when the read of the store throws, the error is caught and
\* the call goes on as after a cache miss; it returns an Outcome with
\* fromCache: false, whose success is true exactly when the session
\* extracted a token beginning with "ey" and nothing threw afterwards.
C7_UnreadableCacheIsMiss ==
  [][\A p \in Procs :
       /\ call'[p].pc # "threw"
       /\ (call[p].op = "processAccount" /\ call[p].pc = "getCached" /\ Steps(p)
           /\ ~store[Slot(p)].readable)
          => /\ call'[p].pc = "prepare"
             /\ hist'[p].read = "threw"
             /\ store' = store
       /\ (Returns(p) /\ hist'[p].read = "threw")
          => /\ call'[p].result # None
             /\ ~call'[p].result[1].fromCache
             /\ call'[p].result[1].success
                <=> /\ hist'[p].token # None
                    /\ BeginsWithEy(hist'[p].token[1])
                    /\ hist'[p].faults = 0]_vars

\* A call that authenticated although the read of the store had thrown.
C7_Witness ==
  \E p \in Procs :
    /\ Returned(p) /\ hist[p].read = "threw"
    /\ call[p].result # None /\ call[p].result[1].success

\* p's getCachedAccessToken call runs in this step.
Queries(p) == call'[p].op = "getCachedAccessToken" /\ Steps(p)

\* C8 as stated: getCachedAccessToken returns undefined when there is no
\* record or the gate rejects it (expired, or origin flag unset under
\* onlyCookieStorage), and the validity, expiry, token and raw record
\* otherwise.
C8_UndefinedWhenRejected ==
  [][\A p \in Procs :
       Queries(p)
       => LET slot == store[generateCacheFileName(call'[p].referencedUsername)]
              rejected ==
                \/ ~slot.readable
                \/ slot.mca = None
                \/ call'[p].onlyCookieStorage /\ ~slot.cookie
                \/ slot.mca[1].obtainedOn + slot.mca[1].expires_in * 1000 - now
                     <= 1000
          IN IF rejected THEN call'[p].cachedToken = None
             ELSE call'[p].cachedToken =
                    Some([is_cookie |-> slot.cookie, valid |-> TRUE,
                          until |-> slot.mca[1].obtainedOn
                                      + slot.mca[1].expires_in * 1000,
                          token |-> slot.mca[1].access_token,
                          data |-> slot.mca[1]])]_vars

\* C9: for a record that getCachedAccessToken returns, until is
\* obtainedOn + expires_in * 1000 and valid is true exactly when
\* until - now > 1000; a cookie-origin record is returned in either mode.
C9_ValidityMargin ==
  [][\A p \in Procs :
       Queries(p)
       => LET slot == store[generateCacheFileName(call'[p].referencedUsername)]
              r    == call'[p].cachedToken
          IN /\ (slot.readable /\ slot.mca # None /\ slot.cookie) => r # None
             /\ r # None
                => /\ slot.mca # None
                   /\ r[1].until = slot.mca[1].obtainedOn
                                     + slot.mca[1].expires_in * 1000
                   /\ r[1].valid <=> (r[1].until - now > 1000)]_vars

\* A cookie-origin record with exactly 1000 ms left was reported invalid.
C9_Witness ==
  \E p \in Procs :
    /\ call[p].op = "getCachedAccessToken" /\ call[p].cachedToken # None
    /\ call[p].cachedToken[1].is_cookie
    /\ ~call[p].cachedToken[1].valid
    /\ call[p].cachedToken[1].until - now = 1000

\* C10: a record whose cookie flag is unset is not returned by
\* getCachedAccessToken under onlyCookieStorage whatever its expiry, and the
\* cache check of processAccount never answers from it; without
\* onlyCookieStorage it is returned with is_cookie false.
C10_NativeRecordHidden ==
  [][\A p \in Procs :
       /\ Queries(p)
          => LET slot == store[generateCacheFileName(call'[p].referencedUsername)]
                 r    == call'[p].cachedToken
             IN (slot.readable /\ slot.mca # None /\ ~slot.cookie)
                => IF call'[p].onlyCookieStorage THEN r = None
                   ELSE /\ r # None
                        /\ ~r[1].is_cookie
                        /\ r[1].token = slot.mca[1].access_token
                        /\ r[1].data = slot.mca[1]
       /\ (call[p].op = "processAccount" /\ call[p].pc = "getCached" /\ Steps(p)
           /\ ~store[Slot(p)].cookie)
          => call'[p].pc = "prepare"
       /\ (Returns(p) /\ call'[p].result[1].fromCache)
          => store[Slot(p)].cookie]_vars

\* Under onlyCookieStorage nothing was returned for a native record that
\* has more than 1000 ms left.
C10_Witness ==
  \E p \in Procs :
    /\ call[p].op = "getCachedAccessToken" /\ call[p].onlyCookieStorage
    /\ call[p].cachedToken = None
    /\ LET slot == store[Slot(p)]
       IN /\ slot.readable /\ slot.mca # None /\ ~slot.cookie
          /\ slot.mca[1].obtainedOn + slot.mca[1].expires_in * 1000 - now > 1000

\* The cache stage of p's call failed and no session step did: the read of
\* the store threw, no browser was launched and nothing was thrown afterwards.
CacheStageFailed(p) ==
  hist[p].read = "threw" /\ hist[p].launches = 0 /\ hist[p].faults = 0

\* C11 as stated: getToken returns the token of the Outcome exactly when
\* processAccount returned success: true and throws otherwise, with the
\* message "Failed to get token from cache" when the stage that failed is the
\* cache and "Failed to authenticate with provided credentials" when it is
\* the session.
C11_TokenOrDistinguishedError ==
  \A p \in Procs :
    (call[p].caller = "getToken" /\ call[p].outer # None)
    => LET result == call[p].result[1]
           outer  == call[p].outer[1]
       IN IF result.success
          THEN outer = [returned |-> result.token, thrown |-> None]
          ELSE /\ outer.returned = None
               /\ outer.thrown =
                    Some(IF CacheStageFailed(p)
                         THEN "Failed to get token from cache"
                         ELSE "Failed to authenticate with provided credentials")

NativeRecord(slot) == slot.readable /\ slot.mca # None /\ ~slot.cookie

\* C13: the clearing step of the "microsoft" hook leaves every slot that
\* holds a record with the cookie flag unset exactly as it is; what it
\* resets is the slot of the hook's identity, and only a record with the
\* flag set.
C13_NativeRecordNeverCleared ==
  [][\A p \in Procs :
       (call[p].pc = "hookClear" /\ Steps(p))
       => /\ \A u \in Identities :
               NativeRecord(store[u]) => store'[u] = store[u]
          /\ store' # store
             => /\ store[Slot(p)].mca # None /\ store[Slot(p)].cookie
                /\ store' = [store EXCEPT ![Slot(p)] = EmptySlot]]_vars

\* The hook has passed its clearing step and the record of the native login
\* of its identity is still in the slot.
C13_Witness ==
  \E p \in Procs :
    /\ call[p].caller = "maybeClearCookieCache" /\ call[p].pc = "native"
    /\ NativeRecord(store[Slot(p)])
    /\ hist[p].read = "ok" /\ hist[p].cleared = "none"

\* C14: clearCache(identity) resets the slot of the identity whatever it
\* holds (a valid or an expired record, of the cookie path or not, no record,
\* an unreadable file) and leaves the other slots alone; it ends without an
\* error; after it getCachedAccessToken returns undefined in both modes; and
\* a second clearCache changes nothing.
C14_ClearCacheResetsSlot ==
  [][\A p \in Procs :
       ClearCache(p)
       => LET u == generateCacheFileName(call'[p].referencedUsername)
          IN /\ store' = [store EXCEPT ![u] = EmptySlot]
             /\ \A mode \in BOOLEAN :
                  getCachedAccessToken(store'[u], mode, now') = None
             /\ call'[p].pc = "done" /\ call'[p].outer = None
             /\ clearCache(store'[u]) = store'[u]
             /\ store[u] = EmptySlot => store' = store]_vars

\* clearCache has reset a slot that held a record.
C14_Witness ==
  \E p \in Procs :
    /\ call[p].op = "clearCache" /\ call[p].pc = "done"
    /\ hist[p].cleared = "record"
    /\ store[Slot(p)] = EmptySlot

\* C15: a read of the cache changes no slot of the store: neither a call of
\* getCachedAccessToken (in either mode, also by the "microsoft" hook) nor
\* the steps of a processAccount call up to and including its cache check,
\* whether the check ends in a hit or not; the record that was read keeps its
\* obtainedOn and its expires_in.
C15_ReadsLeaveStore ==
  [][\A p \in Procs :
       (\/ (Idle(p) /\ call'[p].op = "getCachedAccessToken" /\ now' = now)
        \/ (Steps(p) /\ call'[p].pc \in {"getCached", "hookGetCached"})
        \/ (Steps(p) /\ call[p].pc \in {"getCached", "hookGetCached"}))
       => store' = store]_vars

\* A call answered from the cache, with the record it read still in the slot
\* as it was stored.
C15_Witness ==
  \E p \in Procs :
    /\ Returned(p) /\ call[p].result[1].fromCache
    /\ hist[p].read = "ok" /\ hist[p].writes = 0
    /\ store[Slot(p)] =
         StoredRecord(<<"e","y","O">>, EXPIRES_IN, SAFETY_MARGIN + 1, TRUE)

\* The token the extraction is to give for a cookie string: what follows the
\* first occurrence of "bearer_token=", wherever it is, up to the next ";" or
\* to the end of the string; the empty string when the marker is absent.
MarkerAt(s, k) ==
  k + Len(bearerToken) - 1 <= Len(s)
  /\ SubSeq(s, k, k + Len(bearerToken) - 1) = bearerToken
TokenAfterMarker(s) ==
  IF \A k \in 1 .. Len(s) : ~MarkerAt(s, k) THEN <<>>
  ELSE LET k     == CHOOSE k \in 1 .. Len(s) :
                      MarkerAt(s, k) /\ \A j \in 1 .. (k - 1) : ~MarkerAt(s, j)
           from  == k + Len(bearerToken)
           semis == {j \in from .. Len(s) : s[j] = ";"}
           to    == IF semis = {} THEN Len(s)
                    ELSE (CHOOSE j \in semis : \A i \in semis : j <= i) - 1
       IN SubSeq(s, from, to)

\* C16 as stated: the token extracted from document.cookie is what follows
\* the first occurrence of the marker up to the next ";" or the end of the
\* string, also when the marker is at position 0, and is empty when the
\* marker is absent.
C16_TokenFollowsMarker ==
  \A p \in Procs :
    hist[p].cookieString # None
    => hist[p].token = Some(TokenAfterMarker(hist[p].cookieString[1]))

\* C17 as stated: no supplied cookie entry is passed over without a call of
\* context.setCookie, also when no entry has one of the login domains.
C17_EveryCookieInjected ==
  \A p \in Procs : hist[p].skipped = 0

\* C17, amended: after the clearing step the run goes on in either case.
\* With an entry of a login domain among the supplied ones it navigates to
\* the login page and calls context.setCookie once for every supplied entry,
\* in order; with no such entry it calls context.setCookie for none of them
\* and goes on with the navigation to the login page.
C17_InjectionOnlyWithLoginCookie ==
  [][\A p \in Procs :
       /\ (call[p].pc = "clearCookies" /\ Steps(p)
           /\ hist'[p].faults = hist[p].faults)
          => IF hasMicrosoftCookies(call[p].cookies)
             THEN /\ call'[p].pc = "gotoLoginFirst"
                  /\ call'[p].cookies = call[p].cookies
                  /\ hist'[p].skipped = 0
             ELSE /\ call'[p].pc = "gotoLogin"
                  /\ hist'[p].skipped = Len(call[p].cookies)
                  /\ hist'[p].skipped > 0
       /\ (call[p].pc = "gotoLoginFirst" /\ Steps(p)
           /\ hist'[p].faults = hist[p].faults)
          => (call'[p].pc = "setCookie" /\ call'[p].i = 1
              /\ call'[p].cookies = call[p].cookies)
       /\ (call[p].pc = "setCookie" /\ Steps(p))
          => /\ call[p].i \in 1 .. Len(call[p].cookies)
             /\ IF call[p].i < Len(call[p].cookies)
                THEN /\ call'[p].pc = "setCookie"
                     /\ call'[p].i = call[p].i + 1
                     /\ call'[p].cookies = call[p].cookies
                ELSE call'[p].pc = "gotoLogin"
       /\ call'[p].pc = "setCookie" => call[p].pc \in {"gotoLoginFirst", "setCookie"}]_vars

\* A run that injected none of its cookies and went on to read the cookie
\* string of the profile page.
C17_Witness ==
  \E p \in Procs :
    /\ Returned(p) /\ hist[p].skipped = 1 /\ hist[p].rejected = 0
    /\ hist[p].cookieString # None /\ hist[p].faults = 0

\* C18: a call of context.setCookie that throws is not a fault of the run:
\* nothing is thrown towards the catch blocks, the loop goes on with the next
\* supplied entry exactly as after a successful call, after the last entry
\* the run goes on with the navigation, and the Outcome is that of the later
\* steps: success with the token when an accepted token was extracted and
\* nothing threw.
C18_InjectionFailureNotFatal ==
  [][\A p \in Procs :
       /\ (call[p].pc = "setCookie" /\ Steps(p)
           /\ hist'[p].rejected > hist[p].rejected)
          => /\ hist'[p].rejected = hist[p].rejected + 1
             /\ hist'[p].faults = hist[p].faults
             /\ call'[p].thrown = None
             /\ call'[p] = [call[p] EXCEPT
                  !.i = IF call[p].i < Len(call[p].cookies) THEN @ + 1 ELSE 0,
                  !.cookies = IF call[p].i < Len(call[p].cookies) THEN @ ELSE <<>>,
                  !.pc = IF call[p].i < Len(call[p].cookies)
                         THEN "setCookie" ELSE "gotoLogin"]
       /\ (Returns(p) /\ hist'[p].rejected > 0 /\ hist'[p].faults = 0
           /\ hist'[p].token # None)
          => call'[p].result =
               Some(IF BeginsWithEy(hist'[p].token[1])
                    THEN [success |-> TRUE, fromCache |-> FALSE,
                          token |-> hist'[p].token, error |-> None]
                    ELSE [success |-> FALSE, fromCache |-> FALSE,
                          token |-> None, error |-> None])]_vars

\* A call in which both injections failed and that authenticated all the same.
C18_Witness ==
  \E p \in Procs :
    /\ Returned(p) /\ hist[p].rejected = 2 /\ hist[p].faults = 0
    /\ call[p].result[1].success /\ ~call[p].result[1].fromCache
    /\ hist[p].writes = 1

\* An optional string is present: defined and not empty.
Present(o) == o # None /\ o[1] # <<>>

\* C19 as stated: the proxy-authentication call is made only for a
\* descriptor with both a username and a password, and it carries them; with
\* one of the two or none the proxy is used anonymously.
C19_ProxyAuthOnlyWithBoth ==
  \A p \in Procs :
    call[p].pc = "authenticate"
    => /\ call[p].proxy # None
       /\ Present(call[p].proxy[1].username)
       /\ Present(call[p].proxy[1].password)
       /\ call[p].proxyUrl[1].username = call[p].proxy[1].username[1]
       /\ call[p].proxyUrl[1].password = call[p].proxy[1].password[1]

\* The positions of the ":" in a proxy string, and its k-th field: what lies
\* between the (k-1)-th and the k-th ":" (or the end), undefined when the
\* string has fewer than k-1 of them.
Colons(s) == {i \in 1 .. Len(s) : s[i] = ":"}
NthColon(s, n) ==
  CHOOSE i \in Colons(s) : Cardinality({j \in Colons(s) : j < i}) = n - 1
NthField(s, k) ==
  IF Cardinality(Colons(s)) < k - 1 THEN None
  ELSE Some(SubSeq(s, IF k = 1 THEN 1 ELSE NthColon(s, k - 1) + 1,
                      IF Cardinality(Colons(s)) >= k
                      THEN NthColon(s, k) - 1 ELSE Len(s)))

\* C20: the proxy resolution of processAccount gives, for a string, the
\* descriptor of its first four ":"-separated fields in the order host,
\* port, username, password, with undefined for the fields the string does
\* not have and whatever follows a fourth field ignored; it gives a
\* descriptor for every string; a structured descriptor is handed on as it
\* is, and no proxy stays no proxy.
C20_ProxyResolvedPositionally ==
  [][\A p \in Procs :
       (call[p].pc = "prepare" /\ Steps(p))
       => LET proxyConfig == call[p].proxyConfig
          IN call'[p].proxy =
               CASE proxyConfig.kind = "string" ->
                      Some([server   |-> NthField(proxyConfig.str, 1),
                            port     |-> NthField(proxyConfig.str, 2),
                            username |-> NthField(proxyConfig.str, 3),
                            password |-> NthField(proxyConfig.str, 4)])
                 [] proxyConfig.kind = "object" -> Some(proxyConfig.cfg)
                 [] OTHER -> None]_vars

\* A call whose proxy string had three fields: the password is undefined.
C20_Witness ==
  \E p \in Procs :
    /\ call[p].op = "processAccount" /\ call[p].pc = "launch"
    /\ call[p].proxy = Some([server |-> Some(<<"h">>), port |-> Some(<<"8">>),
                             username |-> Some(<<"u">>), password |-> None])

(***************************************************************************)
(* The order of the steps of a session run.                                *)
(***************************************************************************)
\* The positions of a session run, in the order of the code.
SessionOrder ==
  <<"launch", "newPage", "authenticate", "setUserAgent", "clearCookies",
    "gotoLoginFirst", "setCookie", "gotoLogin", "reload", "gotoMinecraft",
    "waitForSelector", "click", "settle", "gotoProfile", "evaluate", "save",
    "close", "done">>

\* The steps a run may pass over: proxy authentication, the injection (with
\* the navigation that precedes it) and the cache write.
OptionalSteps == {"authenticate", "gotoLoginFirst", "setCookie", "save"}

Position(pc) == CHOOSE k \in 1 .. Len(SessionOrder) : SessionOrder[k] = pc

InSession(pc) == \E k \in 1 .. Len(SessionOrder) - 1 : SessionOrder[k] = pc

\* to is the next step after from, but for optional steps passed over.
FollowsInOrder(from, to) ==
  /\ Position(from) < Position(to)
  /\ \A k \in Position(from) + 1 .. Position(to) - 1 :
        SessionOrder[k] \in OptionalSteps

C24_FailureNeverFromCache ==
  \A p \in Procs :
    Returned(p) =>
      LET result == call[p].result[1]
      IN /\ ~result.success => ~result.fromCache
         /\ result.fromCache
              => /\ result.success /\ result.token # None
                 /\ hist[p].launches = 0
         /\ (call[p].caller = "getToken" /\ call[p].outer # None)
              => call[p].outer[1].thrown # Some("Failed to get token from cache")

\* getToken has thrown after a call whose read of the store failed.
C24_Witness ==
  \E p \in Procs :
    /\ Returned(p) /\ call[p].caller = "getToken" /\ call[p].outer # None
    /\ hist[p].read = "threw"
    /\ ~call[p].result[1].success
    /\ call[p].outer[1].thrown # None

\* C25: when a processAccount call returns an Outcome with success false,
\* the identity's slot is what it was when the call started, and the call
\* has written nothing, whatever faults occurred.
C25_FailureLeavesSlot ==
  \A p \in Procs :
    (Returned(p) /\ ~call[p].result[1].success)
    => /\ store[Slot(p)] = hist[p].before[1]
       /\ hist[p].writes = 0

(***************************************************************************)
(* The lifetime of a record written by a session run.                      *)
(***************************************************************************)
\* p's processAccount call reads the store in this step, and an earlier call
\* returned a fresh token for the identity with no write of the slot since.
ChecksAfterFresh(p) ==
  /\ call[p].op = "processAccount" /\ call[p].pc = "getCached"
  /\ Steps(p)
  /\ fresh[Slot(p)] # None

\* p's call ends, in this step, as a cache hit with token and no session.
HitsCache(p, token) ==
  /\ call'[p].pc = "done"
  /\ call'[p].result = Some(CacheHit(token))
  /\ hist'[p].launches = 0
  /\ call'[p].browser = "none"
  /\ store' = store

\* C26 as stated: after a call for an identity returned a fresh token T at
\* time t, with no write of the slot since, a later call that starts before
\* t + 86400 s - 1 s hits the cache with T and launches nothing, and a call
\* that starts at or after that instant misses the cache.
C26_HitUntilDayAfterReturn ==
  [][\A p \in Procs :
       ChecksAfterFresh(p) =>
          IF hist[p].startedAt
               < fresh[Slot(p)][1].at + TTL_MS - SAFETY_MARGIN
          THEN HitsCache(p, fresh[Slot(p)][1].token)
          ELSE call'[p].pc = "prepare"
    ]_vars

\* C26, amended: after a call for an identity returned a fresh token T, with
\* no write of the slot since, the slot holds the record the call wrote at
\* time s (not later than the return); a later call whose read of the store
\* happens before s + 86400 s - 1 s hits the cache with T and launches
\* nothing, one whose read happens at or after that instant misses the cache,
\* and so does every call that starts at or after t + 86400 s - 1 s, t being
\* the time of the return.
C26_HitUntilDayAfterWrite ==
  [][\A p \in Procs :
       ChecksAfterFresh(p) =>
          LET slot == store[Slot(p)]
              last == fresh[Slot(p)][1]
          IN /\ slot.readable /\ slot.mca # None /\ slot.cookie
             /\ slot.mca[1].access_token = last.token
             /\ slot.mca[1].expires_in = EXPIRES_IN
             /\ slot.mca[1].obtainedOn <= last.at
             /\ IF now < slot.mca[1].obtainedOn + TTL_MS - SAFETY_MARGIN
                THEN HitsCache(p, last.token)
                ELSE call'[p].pc = "prepare"
             /\ hist[p].startedAt >= last.at + TTL_MS - SAFETY_MARGIN
                  => call'[p].pc = "prepare"
    ]_vars

\* A later call has hit the cache with the token an earlier call of the run
\* obtained in a session and returned.
C26_Witness ==
  \E p \in Procs :
    /\ Returned(p) /\ fresh[Slot(p)] # None
    /\ call[p].result = Some(CacheHit(fresh[Slot(p)][1].token))
    /\ hist[p].launches = 0
    /\ now > fresh[Slot(p)][1].at

(***************************************************************************)
(* The native ("microsoft") hook.                                          *)
(***************************************************************************)
\* The slot holds a record with a token entry and the cookie-origin flag.
FlagSetRecord(slot) == slot.readable /\ slot.mca # None /\ slot.cookie

\* C27: when the native hook runs for an identity whose slot holds a record
\* with a token entry and the cookie-origin flag, the slot is cleared, be the
\* record still valid or expired; the clearing happens before the native
\* authentication is invoked; and the native authentication is invoked
\* afterwards, exactly once, in every case: record cleared, no record, read of
\* the cache failed.
C27_ClearedBeforeNativeAuth ==
  [][\A p \in Procs :
       (Steps(p) /\ call[p].op = "maybeClearCookieCache") =>
          /\ call[p].pc = "hookGetCached"
               => /\ call'[p].pc = "hookClear"
                  /\ hist'[p].native = 0 /\ store' = store
          /\ call[p].pc = "hookClear"
               => /\ call'[p].pc = "native"
                  /\ hist[p].native = 0 /\ hist'[p].native = 0
                  /\ FlagSetRecord(store[Slot(p)])
                       => /\ store'[Slot(p)] = EmptySlot
                          /\ hist'[p].cleared = "record"
                  /\ ~FlagSetRecord(store[Slot(p)])
                       => /\ store' = store
                          /\ hist'[p].cleared = "none"
          /\ call[p].pc = "native"
               => /\ call'[p].pc = "done"
                  /\ hist[p].read \in {"ok", "threw"}
                  /\ hist'[p].native = 1 /\ store' = store
          /\ hist'[p].native > hist[p].native => call[p].pc = "native"
          /\ store' # store => call[p].pc = "hookClear"
          /\ (call'[p].pc = "done" /\ hist'[p].read # "none")
               => hist'[p].native = 1
    ]_vars

\* The hook has ended after it cleared a record that had already expired and
\* then invoked the native authentication.
C27_Witness ==
  \E p \in Procs :
    /\ call[p].op = "maybeClearCookieCache" /\ call[p].pc = "done"
    /\ call[p].cachedToken # None
    /\ call[p].cachedToken[1].is_cookie /\ ~call[p].cachedToken[1].valid
    /\ hist[p].cleared = "record" /\ hist[p].native = 1
    /\ store[Slot(p)] = EmptySlot

(***************************************************************************)
(* Concurrent calls for one identity.                                      *)
(***************************************************************************)
\* C22: the core does not serialize calls per identity: whatever another call
\* for the same identity is doing, a call at its cache read, at its launch or
\* at its cache write can take that step; a call that returns a fresh token
\* has launched its own browser and written the slot itself; so two calls
\* that both missed the cache can have their browsers open at the same time
\* and then both write the slot.
C22_CallsNotSerialized ==
  \A p \in ProcsConcurrent :
    /\ call[p].pc = "getCached" => ENABLED CheckCache(p)
    /\ call[p].pc = "launch" => ENABLED Launch(p)
    /\ call[p].pc = "save" => ENABLED Save(p)
    /\ (Returned(p) /\ call[p].result[1].success)
         => /\ ~call[p].result[1].fromCache => hist[p].writes = 1
            /\ hist[p].writes = 1 => hist[p].launches = 1

\* Two calls for the same identity have both missed the cache, had their
\* browsers open at the same time, and both written the identity's slot.
C22_Witness ==
  \E p, q \in ProcsConcurrent :
    /\ p # q
    /\ Returned(p) /\ Returned(q)
    /\ call[p].referencedUsername = call[q].referencedUsername
    /\ hist[p].read = "ok" /\ hist[q].read = "ok"
    /\ hist[p].launches = 1 /\ hist[q].launches = 1
    /\ hist[q].overlap
    /\ hist[p].writes = 1 /\ hist[q].writes = 1
    /\ call[p].result[1].success /\ call[q].result[1].success
    /\ ~call[p].result[1].fromCache /\ ~call[q].result[1].fromCache

(***************************************************************************)
(* Termination of a call.                                                  *)
(***************************************************************************)
\* p is in a processAccount call that has not returned.
InCall(p) == call[p].op = "processAccount" /\ call[p].pc # "done"

\* The Outcome is one of the three kinds: cache hit, persisted token, failure.
IsOutcome(result) ==
  \/ result.success /\ result.fromCache /\ result.token # None
  \/ result.success /\ ~result.fromCache /\ result.token # None
  \/ ~result.success /\ ~result.fromCache /\ result.token = None

\* C23: every processAccount call eventually returns an Outcome (a cache hit,
\* a persisted token or a failure), provided every operation it awaits
\* eventually returns or throws: no loop or retry of the call runs forever.
C23_EveryCallReturns ==
  \A p \in Procs :
    /\ [](Returned(p) => (call[p].result # None /\ IsOutcome(call[p].result[1])))
    /\ InCall(p) ~> Returned(p)

\* A call has returned after a session run whose settle wait ended with the
\* timer, no other time having passed.
C23_Witness ==
  \E p \in Procs :
    /\ Returned(p) /\ hist[p].launches = 1 /\ hist[p].closes = 1
    /\ hist[p].cookieString # None
    /\ ticks = 0 /\ now = T0 + SETTLE_MS

=============================================================================
